---- MODULE Spec2Model ----
(***************************************************************************)
(* Model of the interactive session orchestrator of conclave-client-cli    *)
(* (src/src/lib/main.c): the tick loop of main, the version-diff renderer  *)
(* outputChangesIfAny, the command handlers and the SIGINT handler.        *)
(*                                                                         *)
(* main is modelled statement by statement through the program counter pc; *)
(* the signal handler is an asynchronous action.  The collaborators        *)
(* (guise client, conclave client, redline, clash) are the environment:    *)
(* their results are drawn from small sets.                                *)
(***************************************************************************)
EXTENDS Integers, Sequences, FiniteSets, TLC

\* ---------------------------------------------------------------- bounds
\* most updates one Coordination Session advance makes to one response kind
MaxBurst == 2
\* updates the Coordination Session makes in one run of the model
MaxUpdates == 3
\* lines the user completes in one run of the model
MaxLines == 2
\* saturation of the construction / close counters
CountCap == 3

\* updates the Coordination Session makes in one long session
LongUpdates == 258
\* lines the user completes in one long session
LongLines == 1

\* ------------------------------------------------------- program constants
\* uint8_t lastShown...Version: the counters live modulo 2^8
VersionModulus == 256

\* ------------------------------------------------------------ input sets
GuiseStates == {"Idle", "LoggedIn"}
\* results of clvClientUdpUpdate the model draws from
UpdateResults == {-2, -1, 0}
\* negative results of clashParseString the model draws from
ParseErrors == {-2, -1}
NanosleepResults == {-1, 0}

\* the lines the user types, as the chunks they arrive in
Lines ==
    { <<"quit">>, <<"quit", " ">>, <<"help">>,
      <<"room", "create">>, <<"room", "join">>, <<"room", "list">>,
      <<"state">>, <<"ping">>, <<"bogus">> }

IsPrefix(s, t) == Len(s) <= Len(t) /\ SubSeq(t, 1, Len(s)) = s

Prefixes == UNION { { SubSeq(l, 1, n) : n \in 0..Len(l) } : l \in Lines }

\* the buffers one poll can turn buffer b into: nothing typed, or one chunk
Extensions(b) ==
    { p \in Prefixes : IsPrefix(b, p) /\ Len(p) <= Len(b) + 1
                       /\ \E l \in Lines : IsPrefix(p, l) }

VARIABLES
    g_quit,                         \* static int g_quit
    pc,                             \* position of main
    guiseState,                     \* guiseClient.guiseClient.state
    hasStartedConclave,             \* app.hasStartedConclave
    lastShownPingResponseVersion,   \* app.lastShownPingResponseVersion
    lastShownRoomCreateVersion,     \* app.lastShownRoomCreateVersion
    lastShownRoomListVersion,       \* app.lastShownRoomListVersion
    pingResponseOptionsVersion,     \* conclaveClient->pingResponseOptionsVersion
    roomCreateVersion,              \* conclaveClient->roomCreateVersion
    listRoomsOptionsVersion,        \* conclaveClient->listRoomsOptionsVersion
    updateResult,                   \* int updateResult
    editBuffer,                     \* the Line Console's buffered line
    editDisplayed,                  \* the line is shown on the terminal
    editOpen,                       \* the Line Console is initialised, not closed
    textInput,                      \* const char* textInput
    parseResult,                    \* int parseResult
    outStream,                      \* the handlers' output sink
    exitCode,                       \* the value main returned
    exitVia,                        \* how main was left
    initCount,                      \* calls of clvClientUdpInit so far
    closeCount,                     \* calls of redlineEditClose so far
    unrendered,                     \* per kind: updates no render has covered
    tickLog,                        \* what the current tick has done so far
    burstSizes,                     \* per kind: updates one advance can make
    updatesLeft,                    \* updates the collaborator may still make
    linesLeft                       \* lines the user may still complete

vars == << g_quit, pc, guiseState, hasStartedConclave,
           lastShownPingResponseVersion, lastShownRoomCreateVersion,
           lastShownRoomListVersion, pingResponseOptionsVersion,
           roomCreateVersion, listRoomsOptionsVersion, updateResult,
           editBuffer, editDisplayed, editOpen, textInput, parseResult,
           outStream, exitCode, exitVia, initCount, closeCount, unrendered,
           tickLog, burstSizes, updatesLeft, linesLeft >>

\* groups of variables, for UNCHANGED
appVersions == << lastShownPingResponseVersion, lastShownRoomCreateVersion,
                  lastShownRoomListVersion >>
clvVersions == << pingResponseOptionsVersion, roomCreateVersion,
                  listRoomsOptionsVersion >>
editVars == << editBuffer, editDisplayed, editOpen >>
lineVars == << textInput, parseResult, outStream >>
exitVars == << exitCode, exitVia, closeCount >>
envVars == << burstSizes, updatesLeft, linesLeft >>

Kinds == {"ping", "create", "list"}

Bump(n) == IF n < CountCap THEN n + 1 ELSE n

\* one entry of tickLog: an operation, what it was applied to, a number
Ev(op, arg, n) == << op, arg, n >>
Logged(op, arg, n) == tickLog' = Append(tickLog, Ev(op, arg, n))

Alive == pc \notin {"done", "crashed"}

\* the state of main when it reaches the loop, the environment apart
InitMain ==
    /\ g_quit = 0
    /\ pc = "while"
    /\ guiseState = "Idle"
    /\ hasStartedConclave = FALSE
    /\ lastShownPingResponseVersion = 0
    /\ lastShownRoomCreateVersion = 0
    /\ lastShownRoomListVersion = 0
    /\ pingResponseOptionsVersion = 0
    /\ roomCreateVersion = 0
    /\ listRoomsOptionsVersion = 0
    /\ updateResult = 0
    /\ editBuffer = << >>
    /\ editDisplayed = TRUE
    /\ editOpen = TRUE
    /\ textInput = << >>
    /\ parseResult = 0
    /\ outStream = << >>
    /\ exitCode = 0
    /\ exitVia = "none"
    /\ initCount = 0
    /\ closeCount = 0
    /\ unrendered = [k \in Kinds |-> 0]
    /\ tickLog = << >>

\* a short session: every kind is updated, a few times in all
Init ==
    /\ InitMain
    /\ burstSizes = [k \in Kinds |-> 0..MaxBurst]
    /\ updatesLeft = MaxUpdates
    /\ linesLeft = MaxLines

\* ------------------------------------------------------- signal handler
\* interruptHandler: runs between any two steps of the live process.
\* g_quit is a plain static int, not a volatile sig_atomic_t; every
\* iteration of the loop calls functions of other translation units, which
\* may run the handler, so the loop condition reads the flag from memory on
\* each evaluation: the write is seen at the next while (!g_quit)
interruptHandler ==
    /\ Alive
    /\ g_quit' = 1
    /\ UNCHANGED << pc, guiseState, hasStartedConclave, appVersions,
                    clvVersions, updateResult, editVars, lineVars, exitVars,
                    initCount, unrendered, tickLog, envVars >>

\* ------------------------------------------------------------ tick loop
\* a loop exit that returns without closing the Line Console
WhileTarget_SkipClose(q) == IF q = 0 THEN "guise_update" ELSE "return"

\* a loop condition that never reads the flag
WhileTarget_Ignore(q) == "guise_update"

\* where the loop condition sends control, given the flag
WhileTarget(q) == IF q = 0 THEN "guise_update" ELSE "close"

\* while (!g_quit)
WhileCheck ==
    /\ pc = "while"
    /\ pc' = WhileTarget(g_quit)
    /\ IF g_quit = 0
          THEN tickLog' = << >> /\ UNCHANGED exitVia
          ELSE exitVia' = "flag" /\ UNCHANGED tickLog
    /\ UNCHANGED << g_quit, guiseState, hasStartedConclave, appVersions,
                    clvVersions, updateResult, editVars, lineVars, exitCode,
                    closeCount, initCount, unrendered, envVars >>

\* guiseClientUdpUpdate(&guiseClient, now): the identity state moves freely
GuiseClientUdpUpdate ==
    /\ pc = "guise_update"
    /\ \E s \in GuiseStates : guiseState' = s
    /\ Logged("advance", "identity", 0)
    /\ pc' = "init_check"
    /\ UNCHANGED << g_quit, hasStartedConclave, appVersions, clvVersions,
                    updateResult, editVars, lineVars, exitVars, initCount,
                    unrendered, envVars >>

\* a gate that forgets the lifecycle flag
ShouldInit_NoFlag(started, state) == state = "LoggedIn"

\* the condition under which main constructs the Coordination Session
ShouldInit(started, state) == ~started /\ state = "LoggedIn"

\* if (!app.hasStartedConclave && state == LoggedIn) { clvClientUdpInit; ... }
ConclaveInit ==
    /\ pc = "init_check"
    /\ IF ShouldInit(hasStartedConclave, guiseState)
          THEN /\ pingResponseOptionsVersion' = 0
               /\ roomCreateVersion' = 0
               /\ listRoomsOptionsVersion' = 0
               /\ initCount' = Bump(initCount)
               /\ hasStartedConclave' = TRUE
               /\ Logged("init", "coordination", 0)
          ELSE UNCHANGED << clvVersions, initCount, hasStartedConclave,
                            tickLog >>
    /\ pc' = "started_check"
    /\ UNCHANGED << g_quit, guiseState, appVersions, updateResult, editVars,
                    lineVars, exitVars, unrendered, envVars >>

\* a tick that goes to the Line Console without advancing or rendering
StartedCheck_PollFirst ==
    /\ pc = "started_check"
    /\ pc' = "edit_update"
    /\ UNCHANGED << g_quit, guiseState, hasStartedConclave, appVersions,
                    clvVersions, updateResult, editVars, lineVars, exitVars,
                    initCount, unrendered, tickLog, envVars >>

\* else if (app.hasStartedConclave): the tick that constructs the
\* Coordination Session does not advance it
StartedCheck_ElseIf ==
    /\ pc = "started_check"
    /\ pc' = IF hasStartedConclave
                /\ \A i \in 1..Len(tickLog) : tickLog[i][1] # "init"
                THEN "clv_update" ELSE "edit_update"
    /\ UNCHANGED << g_quit, guiseState, hasStartedConclave, appVersions,
                    clvVersions, updateResult, editVars, lineVars, exitVars,
                    initCount, unrendered, tickLog, envVars >>

\* a tick that advances the Coordination Session without asking the flag
StartedCheck_Ungated ==
    /\ pc = "started_check"
    /\ pc' = "clv_update"
    /\ UNCHANGED << g_quit, guiseState, hasStartedConclave, appVersions,
                    clvVersions, updateResult, editVars, lineVars, exitVars,
                    initCount, unrendered, tickLog, envVars >>

\* if (app.hasStartedConclave && state == LoggedIn): an advance that stops
\* while identity is not logged in
StartedCheck_NeedsIdentity ==
    /\ pc = "started_check"
    /\ pc' = IF hasStartedConclave /\ guiseState = "LoggedIn"
                THEN "clv_update" ELSE "edit_update"
    /\ UNCHANGED << g_quit, guiseState, hasStartedConclave, appVersions,
                    clvVersions, updateResult, editVars, lineVars, exitVars,
                    initCount, unrendered, tickLog, envVars >>

\* if (app.hasStartedConclave)
StartedCheck ==
    /\ pc = "started_check"
    /\ pc' = IF hasStartedConclave THEN "clv_update" ELSE "edit_update"
    /\ UNCHANGED << g_quit, guiseState, hasStartedConclave, appVersions,
                    clvVersions, updateResult, editVars, lineVars, exitVars,
                    initCount, unrendered, tickLog, envVars >>

\* the log entry of b updates of one kind made by an advance
Updated(kind, b) == IF b > 0 THEN << Ev("update", kind, b) >> ELSE << >>

\* int updateResult = clvClientUdpUpdate(&app.clvClient, now): the
\* collaborator replaces each observed response zero or more times
ClvClientUdpUpdate ==
    /\ pc = "clv_update"
    /\ \E r \in UpdateResults, bp \in burstSizes["ping"],
          bc \in burstSizes["create"], bl \in burstSizes["list"] :
          /\ bp + bc + bl <= updatesLeft
          /\ updateResult' = r
          /\ pingResponseOptionsVersion' =
                (pingResponseOptionsVersion + bp) % VersionModulus
          /\ roomCreateVersion' = (roomCreateVersion + bc) % VersionModulus
          /\ listRoomsOptionsVersion' =
                (listRoomsOptionsVersion + bl) % VersionModulus
          /\ unrendered' = [k \in Kinds |->
                unrendered[k] + (CASE k = "ping" -> bp
                                   [] k = "create" -> bc
                                   [] k = "list" -> bl)]
          /\ updatesLeft' = updatesLeft - (bp + bc + bl)
          /\ tickLog' = tickLog \o << Ev("advance", "coordination", r) >>
                         \o Updated("ping", bp) \o Updated("create", bc)
                         \o Updated("list", bl)
    /\ pc' = "result_check"
    /\ UNCHANGED << g_quit, guiseState, hasStartedConclave, appVersions,
                    editVars, lineVars, exitVars, initCount,
                    burstSizes, linesLeft >>

\* a check that lets the result -1 through
Fatal_BelowMinusOne(r) == r < -1

\* the results of the advance main treats as fatal
Fatal(r) == r < 0

\* if (updateResult < 0) { return updateResult; }
ResultCheck ==
    /\ pc = "result_check"
    /\ IF Fatal(updateResult)
          THEN /\ pc' = "done"
               /\ exitCode' = updateResult
               /\ exitVia' = "fatal"
          ELSE /\ pc' = "ping_check"
               /\ UNCHANGED << exitCode, exitVia >>
    /\ UNCHANGED << g_quit, guiseState, hasStartedConclave, appVersions,
                    clvVersions, updateResult, editVars, lineVars, closeCount,
                    initCount, unrendered, tickLog, envVars >>

\* ------------------------------------------------- outputChangesIfAny
\* what no step of the renderer touches
renderFrame == << g_quit, guiseState, hasStartedConclave, clvVersions,
                  updateResult, editBuffer, editOpen, lineVars, exitVars,
                  initCount, envVars >>

\* a test that also fires on equal versions
Differs_GreaterEq(current, lastShown) == current >= lastShown

\* a test that fires on a greater version only
Differs_Greater(current, lastShown) == current > lastShown

\* the renderer's test: current version != last shown version (uint8_t)
Differs(current, lastShown) == current # lastShown

\* a cycle that forgets to store the version it rendered
ShownVersion_Stale(current, lastShown) == lastShown

\* a cycle that steps the last shown version by one instead of copying
ShownVersion_Step(current, lastShown) == (lastShown + 1) % VersionModulus

\* a cycle that never lowers the last shown version
ShownVersion_Saturating(current, lastShown) ==
    IF current < lastShown THEN lastShown ELSE current

\* the value a render cycle stores as the last shown version
ShownVersion(current, lastShown) == current

\* redlineEditRemove(edit): the displayed line is erased, the buffer kept
RedlineEditRemove(from, to, kind) ==
    /\ pc = from
    /\ editDisplayed' = FALSE
    /\ Logged("erase", kind, 0)
    /\ pc' = to
    /\ UNCHANGED << renderFrame, appVersions, unrendered >>

\* the printf calls of one kind: the current payload goes to the terminal
RenderPayload(from, to, kind) ==
    /\ pc = from
    /\ Logged("render", kind, unrendered[kind])
    /\ unrendered' = [unrendered EXCEPT ![kind] = 0]
    /\ pc' = to
    /\ UNCHANGED << renderFrame, appVersions, editDisplayed >>

\* drawPrompt(edit) inside a render cycle
RenderPrompt(from, to, kind) ==
    /\ pc = from
    /\ Logged("prompt", kind, 0)
    /\ pc' = to
    /\ UNCHANGED << renderFrame, appVersions, editDisplayed, unrendered >>

\* a restore that gives way to the shutdown flag: the loop is left with the
\* line still erased
RedlineEditBringback_Interruptible(from, to, kind) ==
    /\ pc = from
    /\ IF g_quit = 1
          THEN /\ pc' = "close"
               /\ exitVia' = "flag"
               /\ UNCHANGED << editDisplayed, tickLog >>
          ELSE /\ pc' = to
               /\ editDisplayed' = TRUE
               /\ Logged("restore", kind, 0)
               /\ UNCHANGED exitVia
    /\ UNCHANGED << g_quit, guiseState, hasStartedConclave, clvVersions,
                    updateResult, editBuffer, editOpen, lineVars, exitCode,
                    closeCount, initCount, envVars, appVersions, unrendered >>

\* redlineEditReset in the place of redlineEditBringback: the line comes
\* back empty
RedlineEditBringback_Reset(from, to, kind) ==
    /\ pc = from
    /\ editDisplayed' = TRUE
    /\ editBuffer' = << >>
    /\ Logged("restore", kind, 0)
    /\ pc' = to
    /\ UNCHANGED << g_quit, guiseState, hasStartedConclave, clvVersions,
                    updateResult, editOpen, lineVars, exitVars, initCount,
                    envVars, appVersions, unrendered >>

\* a cycle that returns without redlineEditBringback
RedlineEditBringback_Skipped(from, to, kind) ==
    /\ pc = from
    /\ pc' = to
    /\ UNCHANGED << renderFrame, appVersions, unrendered, editDisplayed,
                    tickLog >>

\* redlineEditBringback(edit): the erased line is shown again
RedlineEditBringback(from, to, kind) ==
    /\ pc = from
    /\ editDisplayed' = TRUE
    /\ Logged("restore", kind, 0)
    /\ pc' = to
    /\ UNCHANGED << renderFrame, appVersions, unrendered >>

\* if (conclaveClient->pingResponseOptionsVersion != app->lastShownPing...)
PingCheck ==
    /\ pc = "ping_check"
    /\ pc' = IF Differs(pingResponseOptionsVersion,
                        lastShownPingResponseVersion)
                THEN "ping_remove" ELSE "create_check"
    /\ UNCHANGED << renderFrame, appVersions, editDisplayed, unrendered,
                    tickLog >>

PingRemove == RedlineEditRemove("ping_remove", "ping_assign", "ping")

\* app->lastShownPingResponseVersion = conclaveClient->pingResponse...Version
PingAssign ==
    /\ pc = "ping_assign"
    /\ lastShownPingResponseVersion' =
          ShownVersion(pingResponseOptionsVersion,
                       lastShownPingResponseVersion)
    /\ Logged("assign", "ping", 0)
    /\ pc' = "ping_print"
    /\ UNCHANGED << renderFrame, lastShownRoomCreateVersion,
                    lastShownRoomListVersion, editDisplayed, unrendered >>

PingPrint == RenderPayload("ping_print", "ping_prompt", "ping")

PingPrompt == RenderPrompt("ping_prompt", "ping_bringback", "ping")

PingBringback == RedlineEditBringback("ping_bringback", "create_check", "ping")

\* if (conclaveClient->roomCreateVersion != app->lastShownRoomCreateVersion)
CreateCheck ==
    /\ pc = "create_check"
    /\ pc' = IF Differs(roomCreateVersion, lastShownRoomCreateVersion)
                THEN "create_assign" ELSE "list_check"
    /\ UNCHANGED << renderFrame, appVersions, editDisplayed, unrendered,
                    tickLog >>

\* a room-create cycle without its assignment
CreateAssign_Skipped ==
    /\ pc = "create_assign"
    /\ pc' = "create_remove"
    /\ UNCHANGED << renderFrame, appVersions, editDisplayed, unrendered,
                    tickLog >>

\* app->lastShownRoomCreateVersion = conclaveClient->roomCreateVersion
CreateAssign ==
    /\ pc = "create_assign"
    /\ lastShownRoomCreateVersion' =
          ShownVersion(roomCreateVersion, lastShownRoomCreateVersion)
    /\ Logged("assign", "create", 0)
    /\ pc' = "create_remove"
    /\ UNCHANGED << renderFrame, lastShownPingResponseVersion,
                    lastShownRoomListVersion, editDisplayed, unrendered >>

CreateRemove == RedlineEditRemove("create_remove", "create_print", "create")

CreatePrint == RenderPayload("create_print", "create_prompt", "create")

CreatePrompt == RenderPrompt("create_prompt", "create_bringback", "create")

CreateBringback ==
    RedlineEditBringback("create_bringback", "list_check", "create")

\* if (conclaveClient->listRoomsOptionsVersion != app->lastShownRoomList...)
ListCheck ==
    /\ pc = "list_check"
    /\ pc' = IF Differs(listRoomsOptionsVersion, lastShownRoomListVersion)
                THEN "list_assign" ELSE "edit_update"
    /\ UNCHANGED << renderFrame, appVersions, editDisplayed, unrendered,
                    tickLog >>

\* app->lastShownRoomListVersion = conclaveClient->listRoomsOptionsVersion
ListAssign ==
    /\ pc = "list_assign"
    /\ lastShownRoomListVersion' =
          ShownVersion(listRoomsOptionsVersion, lastShownRoomListVersion)
    /\ Logged("assign", "list", 0)
    /\ pc' = "list_remove"
    /\ UNCHANGED << renderFrame, lastShownPingResponseVersion,
                    lastShownRoomCreateVersion, editDisplayed, unrendered >>

ListRemove == RedlineEditRemove("list_remove", "list_print", "list")

ListPrint == RenderPayload("list_print", "list_prompt", "list")

ListPrompt == RenderPrompt("list_prompt", "list_bringback", "list")

ListBringback == RedlineEditBringback("list_bringback", "edit_update", "list")

\* ----------------------------------------------------- command registry
\* mainCommands / roomCommands: the handler a line resolves to, "" if none
CommandFn(line) ==
    CASE line = <<"room", "create">> -> "onRoomCreate"
      [] line = <<"room", "join">> -> "onRoomJoin"
      [] line = <<"room", "list">> -> "onRoomList"
      [] line = <<"state">> -> "onState"
      [] line = <<"ping">> -> "onPing"
      [] OTHER -> ""

\* tc_str_equal(textInput, verb): the whole text, compared as it is
StrEqual(text, verb) == text = << verb >>

HandlerPcs == {"onRoomCreate", "onRoomCreate_send", "onRoomJoin",
               "onRoomList", "onRoomList_send", "onState", "onPing"}

\* what no step of a handler touches
handlerFrame == << g_quit, guiseState, hasStartedConclave, appVersions,
                   clvVersions, updateResult, editVars, textInput,
                   parseResult, exitCode, closeCount, initCount, unrendered, envVars >>

\* where a request call on app.clvClient can leave the process: the client
\* is an uninitialised stack object until clvClientUdpInit has run
RequestOutcomes(started) ==
    IF started THEN {"parse_check"} ELSE {"parse_check", "crashed"}

\* handlers without the lifecycle test
Gated_Never(started) == FALSE

\* the lifecycle gate of onState and onPing: if (!self->hasStartedConclave)
Gated(started) == ~started

\* clashResponseWritecf(...) calls at the head of onRoomCreate
OnRoomCreateWrite ==
    /\ pc = "onRoomCreate"
    /\ outStream' = Append(outStream, "room create")
    /\ pc' = "onRoomCreate_send"
    /\ UNCHANGED << handlerFrame, exitVia, tickLog >>

\* clvClientUdpCreateRoom(&self->clvClient, &createRoom)
OnRoomCreateSend ==
    /\ pc = "onRoomCreate_send"
    /\ Logged("request", "create-room", 0)
    /\ \E to \in RequestOutcomes(hasStartedConclave) :
          /\ pc' = to
          /\ exitVia' = IF to = "crashed" THEN "crash" ELSE exitVia
    /\ UNCHANGED << handlerFrame, outStream >>

\* onRoomJoin: writes its line, calls nothing
OnRoomJoin ==
    /\ pc = "onRoomJoin"
    /\ outStream' = Append(outStream, "room join")
    /\ pc' = "parse_check"
    /\ UNCHANGED << handlerFrame, exitVia, tickLog >>

\* clashResponseWritecf(response, 4, "room list requested\n")
OnRoomListWrite ==
    /\ pc = "onRoomList"
    /\ outStream' = Append(outStream, "room list requested")
    /\ pc' = "onRoomList_send"
    /\ UNCHANGED << handlerFrame, exitVia, tickLog >>

\* clvClientListRooms(&self->clvClient.conclaveClient, &request)
OnRoomListSend ==
    /\ pc = "onRoomList_send"
    /\ Logged("request", "list-rooms", 0)
    /\ \E to \in RequestOutcomes(hasStartedConclave) :
          /\ pc' = to
          /\ exitVia' = IF to = "crashed" THEN "crash" ELSE exitVia
    /\ UNCHANGED << handlerFrame, outStream >>

\* onState
OnState ==
    /\ pc = "onState"
    /\ IF Gated(hasStartedConclave)
          THEN /\ outStream' = Append(outStream, "conclave not started yet")
               /\ UNCHANGED tickLog
          ELSE /\ Logged("print", "state", 0)
               /\ UNCHANGED outStream
    /\ pc' = "parse_check"
    /\ UNCHANGED << handlerFrame, exitVia >>

\* onPing
OnPing ==
    /\ pc = "onPing"
    /\ IF Gated(hasStartedConclave)
          THEN /\ outStream' = Append(outStream, "conclave not started yet")
               /\ UNCHANGED tickLog
          ELSE /\ Logged("request", "ping", 0)
               /\ UNCHANGED outStream
    /\ pc' = "parse_check"
    /\ UNCHANGED << handlerFrame, exitVia >>

\* --------------------------------------------------- poll and dispatch
\* what no step of the dispatch touches
dispatchFrame == << g_quit, guiseState, hasStartedConclave, appVersions,
                    clvVersions, updateResult, editDisplayed, editOpen,
                    exitCode, closeCount, initCount, unrendered,
                    burstSizes, updatesLeft >>

\* int result = redlineEditUpdate(&edit); if (result == -1)
RedlineEditUpdate ==
    /\ pc = "edit_update"
    /\ \E b \in Extensions(editBuffer), enter \in BOOLEAN :
          /\ enter => (b \in Lines /\ linesLeft > 0)
          /\ editBuffer' = b
          /\ linesLeft' = IF enter THEN linesLeft - 1 ELSE linesLeft
          /\ pc' = IF enter THEN "read_line" ELSE "sleep"
    /\ Logged("poll", "console", 0)
    /\ UNCHANGED << dispatchFrame, lineVars, exitVia >>

\* a dispatch without the "quit" test: the line goes to the registry
LineTarget_QuitToRegistry(text) ==
    IF StrEqual(text, "help") THEN "help" ELSE "parse"

\* where the completed line sends control
LineTarget(text) ==
    IF StrEqual(text, "quit") THEN "close"
    ELSE IF StrEqual(text, "help") THEN "help" ELSE "parse"

\* printf("\n"); textInput = redlineEditLine(&edit); quit / help / else
ReadLine ==
    /\ pc = "read_line"
    /\ textInput' = editBuffer
    /\ pc' = LineTarget(editBuffer)
    /\ exitVia' = IF LineTarget(editBuffer) = "close" THEN "quit" ELSE exitVia
    /\ Logged("line", "console", 0)
    /\ UNCHANGED << dispatchFrame, editBuffer, parseResult, outStream,
                    linesLeft >>

\* clashUsageToStream(&commands, &outStream); puts(...)
Help ==
    /\ pc = "help"
    /\ outStream' = << >>
    /\ Logged("usage", "terminal", 0)
    /\ pc' = "clear"
    /\ UNCHANGED << dispatchFrame, editBuffer, textInput, parseResult,
                    exitVia, linesLeft >>

\* clashParseString(&commands, textInput, &app, &outStream): resolves the
\* line and calls its handler, or returns a negative result
ClashParseString ==
    /\ pc = "parse"
    /\ outStream' = << >>
    /\ IF CommandFn(textInput) # ""
          THEN /\ parseResult' = 0
               /\ Logged("handler", CommandFn(textInput), 0)
               /\ pc' = CommandFn(textInput)
          ELSE /\ \E e \in ParseErrors : parseResult' = e
               /\ UNCHANGED tickLog
               /\ pc' = "parse_check"
    /\ UNCHANGED << dispatchFrame, editBuffer, textInput, exitVia, linesLeft >>

\* if (parseResult <= 0): the diagnostic is printed after a handler ran too
ParseCheck_LeZero ==
    /\ pc = "parse_check"
    /\ IF parseResult <= 0
          THEN Logged("diagnostic", "terminal", parseResult)
          ELSE UNCHANGED tickLog
    /\ pc' = "flush"
    /\ UNCHANGED << dispatchFrame, editBuffer, lineVars, exitVia, linesLeft >>

\* if (parseResult > 0): a negative result prints nothing
ParseCheck_Silent ==
    /\ pc = "parse_check"
    /\ IF parseResult > 0
          THEN Logged("diagnostic", "terminal", parseResult)
          ELSE UNCHANGED tickLog
    /\ pc' = "flush"
    /\ UNCHANGED << dispatchFrame, editBuffer, lineVars, exitVia, linesLeft >>

\* if (parseResult < 0) { printf("unknown command %d\n", parseResult); }
ParseCheck ==
    /\ pc = "parse_check"
    /\ IF parseResult < 0
          THEN Logged("diagnostic", "terminal", parseResult)
          ELSE UNCHANGED tickLog
    /\ pc' = "flush"
    /\ UNCHANGED << dispatchFrame, editBuffer, lineVars, exitVia, linesLeft >>

\* a flush that resets the output sink without writing it out
Flush_Dropped ==
    /\ pc = "flush"
    /\ outStream' = << >>
    /\ pc' = "clear"
    /\ UNCHANGED << dispatchFrame, editBuffer, textInput, parseResult,
                    exitVia, linesLeft, tickLog >>

\* if (outStream.pos > 0) { fputs(...); }  outStream.pos = 0
Flush ==
    /\ pc = "flush"
    /\ IF Len(outStream) > 0
          THEN Logged("flush", "terminal", Len(outStream))
          ELSE UNCHANGED tickLog
    /\ outStream' = << >>
    /\ pc' = "clear"
    /\ UNCHANGED << dispatchFrame, editBuffer, textInput, parseResult,
                    exitVia, linesLeft >>

\* redlineEditClear(&edit)
RedlineEditClear ==
    /\ pc = "clear"
    /\ Logged("clear", "console", 0)
    /\ pc' = "prompt"
    /\ UNCHANGED << dispatchFrame, editBuffer, lineVars, exitVia, linesLeft >>

\* drawPrompt(&edit)
DrawPrompt ==
    /\ pc = "prompt"
    /\ Logged("prompt", "main", 0)
    /\ pc' = "reset"
    /\ UNCHANGED << dispatchFrame, editBuffer, lineVars, exitVia, linesLeft >>

\* redlineEditReset(&edit): the buffer is emptied for the next line
RedlineEditReset ==
    /\ pc = "reset"
    /\ editBuffer' = << >>
    /\ Logged("reset", "console", 0)
    /\ pc' = "sleep"
    /\ UNCHANGED << dispatchFrame, lineVars, exitVia, linesLeft >>

\* sleepMs(16): a failing nanosleep is reported with CLOG_ERROR, a macro of
\* the logging library, taken here to return to its caller.  The tick is
\* over: its locals (updateResult, textInput, parseResult) go out of scope
\* and its log is dropped, only the result of the sleep is kept
SleepMs ==
    /\ pc = "sleep"
    /\ \E err \in NanosleepResults :
          tickLog' = << Ev("sleep", "nanosleep", err) >>
    /\ updateResult' = 0
    /\ textInput' = << >>
    /\ parseResult' = 0
    /\ pc' = "while"
    /\ UNCHANGED << g_quit, guiseState, hasStartedConclave, appVersions,
                    clvVersions, editVars, outStream, exitVars,
                    initCount, unrendered, envVars >>

\* redlineEditClose(&edit)
RedlineEditClose ==
    /\ pc = "close"
    /\ editOpen' = FALSE
    /\ closeCount' = Bump(closeCount)
    /\ pc' = "return"
    /\ UNCHANGED << g_quit, guiseState, hasStartedConclave, appVersions,
                    clvVersions, updateResult, editBuffer, editDisplayed,
                    lineVars, exitCode, exitVia, initCount, unrendered,
                    tickLog, envVars >>

\* return 0;
Return ==
    /\ pc = "return"
    /\ exitCode' = 0
    /\ pc' = "done"
    /\ UNCHANGED << g_quit, guiseState, hasStartedConclave, appVersions,
                    clvVersions, updateResult, editVars, lineVars, exitVia,
                    closeCount, initCount, unrendered, tickLog,
                    envVars >>

\* ------------------------------------------------------- specification
\* one step of main
MainStep ==
    \/ WhileCheck \/ GuiseClientUdpUpdate \/ ConclaveInit \/ StartedCheck
    \/ ClvClientUdpUpdate \/ ResultCheck
    \/ PingCheck \/ PingRemove \/ PingAssign \/ PingPrint \/ PingPrompt
    \/ PingBringback
    \/ CreateCheck \/ CreateAssign \/ CreateRemove \/ CreatePrint
    \/ CreatePrompt \/ CreateBringback
    \/ ListCheck \/ ListAssign \/ ListRemove \/ ListPrint \/ ListPrompt
    \/ ListBringback
    \/ RedlineEditUpdate \/ ReadLine \/ Help \/ ClashParseString
    \/ OnRoomCreateWrite \/ OnRoomCreateSend \/ OnRoomJoin
    \/ OnRoomListWrite \/ OnRoomListSend \/ OnState \/ OnPing
    \/ ParseCheck \/ Flush \/ RedlineEditClear \/ DrawPrompt
    \/ RedlineEditReset \/ SleepMs \/ RedlineEditClose \/ Return

Next == MainStep \/ interruptHandler

Spec == Init /\ [][Next]_vars

\* a long session: the ping / room-info response is updated time and again,
\* once per advance or a whole round of the 8-bit counter in one advance;
\* a room-create or room-list response is updated a round less one at once
LongInit ==
    /\ InitMain
    /\ burstSizes = [k \in Kinds |->
                        IF k = "ping" THEN {0, 1, VersionModulus}
                                      ELSE {0, VersionModulus - 1}]
    /\ updatesLeft = LongUpdates
    /\ linesLeft = LongLines

LongSpec == LongInit /\ [][Next]_vars

\* main keeps running: every call it makes returns
LiveSpec == Init /\ [][Next]_vars /\ WF_vars(MainStep)

TypeOK ==
    /\ g_quit \in {0, 1}
    /\ hasStartedConclave \in BOOLEAN
    /\ guiseState \in GuiseStates
    /\ lastShownPingResponseVersion \in 0..(VersionModulus - 1)
    /\ lastShownRoomCreateVersion \in 0..(VersionModulus - 1)
    /\ lastShownRoomListVersion \in 0..(VersionModulus - 1)
    /\ editBuffer \in Prefixes
    /\ updatesLeft \in 0..LongUpdates
    /\ linesLeft \in 0..MaxLines

\* ------------------------------------------------------------ properties
\* the entries of the current tick's log with operation op
Events(op) == SelectSeq(tickLog, LAMBDA e : e[1] = op)
\* ... and applied to arg
EventsOf(op, arg) == SelectSeq(tickLog, LAMBDA e : e[1] = op /\ e[2] = arg)
Count(op) == Len(Events(op))
CountOf(op, arg) == Len(EventsOf(op, arg))

\* the positions of a tick after the renderer's place in it
TailPcs == {"edit_update", "read_line", "help", "parse", "parse_check",
            "flush", "clear", "prompt", "reset", "sleep"} \cup HandlerPcs

\* the renderer has run in this tick and has returned
RendererReturned == pc \in TailPcs /\ CountOf("advance", "coordination") = 1

\* C1: the Coordination Session is constructed exactly once, on the first
\* tick whose identity advance leaves the Identity Session logged in, and
\* never again while identity stays logged in.
\* - it is never constructed twice, and the flag says whether it was;
\* - after the init check of a tick that observed "logged in" it exists;
\* - a construction is a step of the init check that observes "logged in"
\*   with no construction before it.
C1_ConstructedExactlyOnce ==
    /\ [](/\ initCount <= 1
          /\ hasStartedConclave <=> (initCount = 1)
          /\ (pc = "started_check" /\ guiseState = "LoggedIn")
                => (initCount = 1 /\ hasStartedConclave))
    /\ [][initCount' # initCount =>
            /\ pc = "init_check"
            /\ guiseState = "LoggedIn"
            /\ initCount = 0
            /\ initCount' = 1]_vars

\* a later tick that saw identity logged in and constructed nothing
C1_Witness ==
    /\ pc = "started_check"
    /\ guiseState = "LoggedIn"
    /\ initCount = 1
    /\ CountOf("init", "coordination") = 0
    /\ lastShownPingResponseVersion > 0

\* C2 (as stated): one render per distinct increment - every render covers
\* exactly one increment of its kind, and when the renderer has returned no
\* increment is left unrendered.
C2_OneRenderPerIncrement ==
    /\ \A i \in 1..Len(Events("render")) : Events("render")[i][3] = 1
    /\ RendererReturned => \A k \in Kinds : unrendered[k] = 0

\* C2 (amended): a renderer run renders a kind once if its version moved in
\* this tick's advance and not at all otherwise; the render covers all the
\* increments of the kind since the previous run (one or more, never none),
\* and when the renderer has returned no increment is left unrendered.
C2_OneRenderPerChangedKind ==
    /\ \A i \in 1..Len(Events("render")) : Events("render")[i][3] >= 1
    /\ \A k \in Kinds : CountOf("render", k) <= 1
    /\ RendererReturned =>
          \A k \in Kinds :
             /\ unrendered[k] = 0
             /\ CountOf("render", k) = CountOf("update", k)
             /\ CountOf("render", k) = 1 =>
                   EventsOf("render", k)[1][3] = EventsOf("update", k)[1][3]

\* two increments of one kind in one advance, rendered together
C2_Witness ==
    /\ RendererReturned
    /\ CountOf("render", "ping") = 1
    /\ EventsOf("render", "ping")[1][3] = 2
    /\ CountOf("render", "create") = 1

\* C3: at the end of every tick in which the Coordination Session is
\* initialized (from the renderer's return to the sleep), each last shown
\* version equals the Coordination Session's current version of its kind.
C3_LastShownEqualsCurrent ==
    (hasStartedConclave /\ pc \in TailPcs) =>
        /\ lastShownPingResponseVersion = pingResponseOptionsVersion
        /\ lastShownRoomCreateVersion = roomCreateVersion
        /\ lastShownRoomListVersion = listRoomsOptionsVersion

\* the end of a tick with all three kinds shown at a version above 0
C3_Witness ==
    /\ pc = "sleep"
    /\ hasStartedConclave
    /\ lastShownPingResponseVersion > 0
    /\ lastShownRoomCreateVersion > 0
    /\ lastShownRoomListVersion > 0

\* C4: a tick whose advance changed no version counter has no erase, no
\* render output and no restore.
C4_NoChangeNoCycle ==
    (RendererReturned /\ Count("update") = 0) =>
        /\ Count("erase") = 0
        /\ Count("render") = 0
        /\ Count("restore") = 0
        /\ editDisplayed

\* a quiet tick after ticks that rendered
C4_Witness ==
    /\ pc = "sleep"
    /\ RendererReturned
    /\ Count("update") = 0
    /\ CountOf("init", "coordination") = 0
    /\ lastShownPingResponseVersion = 2
    /\ lastShownRoomListVersion = 1

\* the handlers that depend on the Coordination Session
CoordinationHandlers == {"onRoomCreate", "onRoomJoin", "onRoomList", "onPing"}

\* the request each of them stands for
RequestOf(h) ==
    CASE h = "onRoomCreate" -> "create-room"
      [] h = "onRoomJoin" -> "join-room"
      [] h = "onRoomList" -> "list-rooms"
      [] h = "onPing" -> "ping"

\* a coordination-dependent handler was called in this tick and is over
HandlerOver ==
    /\ pc \in {"parse_check", "crashed"}
    /\ Count("handler") = 1
    /\ Events("handler")[1][2] \in CoordinationHandlers

\* the "not started yet" notice is in the output sink
NoticeWritten ==
    \E i \in 1..Len(outStream) : outStream[i] = "conclave not started yet"

\* C5: a coordination-dependent handler (room create, room join, room list,
\* ping) called while hasStartedConclave is false writes the "not started
\* yet" notice and issues no request to the Coordination Session.
C5_GatedBeforeStart ==
    (HandlerOver /\ ~hasStartedConclave) =>
        (NoticeWritten /\ Count("request") = 0)

\* C6: with the Coordination Session initialized, an invocation of the
\* handler of room create, room join, room list or ping issues exactly one
\* request, the one of its kind.
C6_OneRequestPerInvocation ==
    (HandlerOver /\ hasStartedConclave) =>
        /\ Count("request") = 1
        /\ Events("request")[1][2] = RequestOf(Events("handler")[1][2])

\* C7: a negative result of the Coordination Session advance ends the
\* process in that tick with that result as the value main returns; nothing
\* of the tick runs after the failing advance (no erase, render, poll, line,
\* handler) and no step follows the exit.
C7_FatalAdvanceTerminates ==
    /\ [](/\ updateResult < 0 => pc \in {"result_check", "done"}
          /\ (pc = "done" /\ updateResult < 0) =>
                /\ exitCode = updateResult
                /\ exitVia = "fatal"
                /\ Count("erase") = 0
                /\ Count("render") = 0
                /\ Count("poll") = 0
                /\ Count("line") = 0
                /\ Count("handler") = 0)
    /\ [][Alive]_vars

\* the process has returned -2 from a failing advance that changed a version
C7_Witness ==
    /\ pc = "done"
    /\ exitVia = "fatal"
    /\ exitCode = -2
    /\ Count("update") > 0
    /\ lastShownPingResponseVersion > 0

\* C8: on a shutdown by the interrupt flag or by "quit" the Line Console is
\* closed exactly once before main returns, nothing but the close and the
\* return runs once the shutdown has begun, and main returns 0.
C8_GracefulShutdown ==
    /\ exitVia \in {"flag", "quit"} => pc \in {"close", "return", "done"}
    /\ closeCount >= 1 => (pc \in {"return", "done"} /\ ~editOpen)
    /\ (pc \in {"return", "done"} /\ exitVia \in {"flag", "quit"}) =>
          closeCount = 1
    /\ (pc = "done" /\ exitVia \in {"flag", "quit"}) => exitCode = 0

\* main has returned after an interrupt, the Coordination Session running
C8_Witness ==
    /\ pc = "done"
    /\ exitVia = "flag"
    /\ g_quit = 1
    /\ closeCount = 1
    /\ hasStartedConclave

\* the log of a tick that ran to its sleep
FinishedTick ==
    {<< >>} \cup { << Ev("sleep", "nanosleep", e) >> : e \in NanosleepResults }

\* C9: the flag is read only at the top of a tick, an interrupt inside a
\* tick does not cut it short.
\* - when the loop is left by the flag, the last tick has run to its sleep:
\*   the line is displayed (every erase had its restore) and no handler
\*   output is pending;
\* - with the flag set, control reaches the close only from the loop
\*   condition or from the "quit" line, and erases and handlers go on to
\*   their next statement.
C9_FlagReadAtTickTop ==
    /\ [](exitVia = "flag" =>
            /\ tickLog \in FinishedTick
            /\ editDisplayed
            /\ outStream = << >>)
    /\ [][(g_quit = 1 /\ pc' # pc) =>
            /\ pc' = "close" => pc \in {"while", "read_line"}
            /\ pc' = "done" => pc \in {"return", "result_check"}
            /\ pc' = "crashed" => pc \in {"onRoomCreate_send",
                                          "onRoomList_send"}]_vars

\* the interrupt has arrived inside a render cycle, between erase and restore
C9_Witness ==
    /\ g_quit = 1
    /\ pc = "create_prompt"
    /\ ~editDisplayed

\* C10 (as stated): once the interrupt has set the flag, the tick in progress
\* finishes and the loop is left at the next top-of-tick check.
C10_LeftAtTickTop ==
    (g_quit = 1 /\ ~Alive) => exitVia = "flag"

\* C10 (amended): once the interrupt has set the flag the process eventually
\* ends and no further tick begins; the loop is left by the flag only at the
\* top-of-tick check, after a tick that ran to its sleep.
C10_FlagLeadsToExit ==
    /\ (g_quit = 1) ~> ~Alive
    /\ [][(g_quit = 1 /\ pc = "while") => pc' # "guise_update"]_vars
    /\ [](exitVia = "flag" => (g_quit = 1 /\ tickLog \in FinishedTick))

\* the flag was set during a tick with a dispatch, the loop has been left
C10_Witness ==
    /\ g_quit = 1
    /\ pc = "close"
    /\ exitVia = "flag"
    /\ linesLeft < MaxLines

\* the last entry of the current tick's log is the reading of the line
LineReadLast ==
    /\ Len(tickLog) > 0
    /\ tickLog[Len(tickLog)] = Ev("line", "console", 0)

\* C11 (as stated): the line "quit" sets the shutdown flag.
C11_QuitSetsFlag ==
    exitVia = "quit" => g_quit = 1

\* C11 (amended): the line "quit" leaves the loop at once, without writing
\* the flag: after the line was read nothing of the tick runs (no registry
\* lookup, no handler, no request), only the close and the return follow,
\* and main returns 0.
C11_QuitLeavesLoop ==
    /\ [](textInput = <<"quit">> =>
            /\ pc \in {"close", "return", "done"}
            /\ exitVia = "quit"
            /\ LineReadLast
            /\ Count("handler") = 0
            /\ Count("request") = 0
            /\ Count("diagnostic") = 0
            /\ pc = "done" => (exitCode = 0 /\ closeCount = 1))
    /\ [][pc' # pc => g_quit' = g_quit]_vars

\* main has returned after "quit", the flag never written
C11_Witness ==
    /\ pc = "done"
    /\ textInput = <<"quit">>
    /\ g_quit = 0
    /\ hasStartedConclave

\* the step of the tick an entry of the log belongs to
StepRank(e) ==
    CASE e[1] = "advance" /\ e[2] = "identity" -> 1
      [] e[1] = "init" -> 2
      [] e[1] = "advance" /\ e[2] = "coordination" -> 3
      [] e[1] = "update" -> 3
      [] e[1] \in {"erase", "assign", "render", "restore"} -> 4
      [] e[1] = "prompt" /\ e[2] \in Kinds -> 4
      [] e[1] = "poll" -> 5
      [] e[1] = "sleep" -> 7
      [] OTHER -> 6

\* the index of the first entry of the log with operation op applied to arg
Pos(op, arg) ==
    CHOOSE i \in 1..Len(tickLog) :
        /\ tickLog[i][1] = op /\ tickLog[i][2] = arg
        /\ \A j \in 1..(i - 1) : ~(tickLog[j][1] = op /\ tickLog[j][2] = arg)

\* C12: within a tick the steps come in the order identity advance,
\* coordination advance (if initialized), rendering, Line Console poll: the
\* log of a tick is ordered by step, a tick advances identity before it
\* does anything else, and with the Coordination Session initialized the
\* poll comes after an advance of it in the same tick.
C12_TickOrder ==
    /\ \A i \in 1..(Len(tickLog) - 1) :
          StepRank(tickLog[i]) <= StepRank(tickLog[i + 1])
    /\ (Len(tickLog) > 0 /\ tickLog \notin FinishedTick) =>
          tickLog[1] = Ev("advance", "identity", 0)
    /\ CountOf("advance", "identity") <= 1
    /\ CountOf("advance", "coordination") <= 1
    /\ Count("poll") <= 1
    /\ (Count("poll") = 1 /\ hasStartedConclave) =>
          /\ CountOf("advance", "coordination") = 1
          /\ Pos("advance", "coordination") < Pos("poll", "console")
    /\ Count("render") > 0 => CountOf("advance", "coordination") = 1

\* a tick with all four steps: advances, a render, the poll, a dispatch
C12_Witness ==
    /\ pc = "sleep"
    /\ CountOf("render", "list") = 1
    /\ Count("poll") = 1
    /\ Count("handler") = 1
    /\ CountOf("init", "coordination") = 0

\* C13: a version change made by the Coordination Session advance of a tick
\* is rendered in that tick, before the Line Console is polled; the tick
\* that constructs the Coordination Session also advances it and renders
\* what that advance changed before its poll.
C13_RenderedInSameTick ==
    /\ \A k \in Kinds :
          (CountOf("update", k) = 1 /\ Count("poll") = 1) =>
              /\ CountOf("render", k) = 1
              /\ Pos("update", k) < Pos("render", k)
              /\ Pos("render", k) < Pos("poll", "console")
    /\ (CountOf("init", "coordination") = 1 /\ Count("poll") = 1) =>
          /\ CountOf("advance", "coordination") = 1
          /\ Pos("init", "coordination") < Pos("advance", "coordination")
          /\ Pos("advance", "coordination") < Pos("poll", "console")

\* the tick that constructed the Coordination Session has rendered and polled
C13_Witness ==
    /\ pc = "sleep"
    /\ CountOf("init", "coordination") = 1
    /\ CountOf("render", "ping") = 1
    /\ CountOf("render", "create") = 1
    /\ Count("poll") = 1

\* the positions of main after the dispatch of a line, up to the sleep
AfterDispatchPcs == {"flush", "clear", "prompt", "reset", "sleep"}

\* a line was completed in this tick and its dispatch is over
Dispatched ==
    /\ Count("line") = 1
    /\ \/ pc \in AfterDispatchPcs
       \/ pc \in {"close", "return", "done"} /\ exitVia = "quit"

\* C14 (as stated): every completed line gives exactly one handler
\* invocation or one diagnostic, never both, never neither.
C14_EveryLineOneOutcome ==
    Dispatched => Count("handler") + Count("diagnostic") = 1

\* C14 (amended): a completed line is dispatched once; a line other than
\* the built-in "quit" and "help" gives exactly one handler invocation or
\* one diagnostic, "help" gives the usage text and "quit" the shutdown, with
\* neither a handler nor a diagnostic; after the dispatch the console is
\* reset, so the buffer is empty at the sleep.
C14_RegistryLineOneOutcome ==
    /\ Count("line") <= 1
    /\ Count("handler") <= 1
    /\ Dispatched =>
          /\ textInput \notin {<<"quit">>, <<"help">>} =>
                Count("handler") + Count("diagnostic") = 1
          /\ textInput \in {<<"quit">>, <<"help">>} =>
                Count("handler") + Count("diagnostic") = 0
          /\ Count("usage") = (IF textInput = <<"help">> THEN 1 ELSE 0)
    /\ (pc = "sleep" /\ Count("line") = 1) =>
          (editBuffer = << >> /\ Count("reset") = 1)

\* a resolved line at the sleep: one handler, no diagnostic, console reset
C14_Witness ==
    /\ pc = "sleep"
    /\ textInput = <<"room", "list">>
    /\ Count("handler") = 1
    /\ Count("diagnostic") = 0
    /\ hasStartedConclave

\* C15: a negative result of the registry prints one diagnostic with that
\* result, calls no handler, issues no request, leaves hasStartedConclave
\* and the last shown versions as they are, redraws the prompt, and the
\* loop goes on to the sleep and the next loop condition.
C15_DispatchError ==
    /\ [](parseResult < 0 =>
            /\ pc \in {"parse_check"} \cup AfterDispatchPcs
            /\ Count("handler") = 0
            /\ Count("request") = 0
            /\ pc \in AfterDispatchPcs =>
                  /\ Count("diagnostic") = 1
                  /\ Events("diagnostic")[1][3] = parseResult
            /\ pc = "sleep" =>
                  (CountOf("prompt", "main") = 1 /\ editBuffer = << >>))
    /\ [][parseResult' < 0 =>
            /\ hasStartedConclave' = hasStartedConclave
            /\ lastShownPingResponseVersion' = lastShownPingResponseVersion
            /\ lastShownRoomCreateVersion' = lastShownRoomCreateVersion
            /\ lastShownRoomListVersion' = lastShownRoomListVersion]_vars
    /\ [][(pc = "sleep" /\ pc' # pc) => pc' = "while"]_vars

\* an unresolvable line after rendering: diagnosed, the tick at its sleep
C15_Witness ==
    /\ pc = "sleep"
    /\ parseResult = -2
    /\ textInput = <<"bogus">>
    /\ hasStartedConclave
    /\ lastShownPingResponseVersion > 0

\* the positions of main inside outputChangesIfAny
RenderPcs ==
    { "ping_check", "ping_remove", "ping_assign", "ping_print",
      "ping_prompt", "ping_bringback",
      "create_check", "create_assign", "create_remove", "create_print",
      "create_prompt", "create_bringback",
      "list_check", "list_assign", "list_remove", "list_print",
      "list_prompt", "list_bringback" }

\* C16: rendering is transparent to the user's input.  A run with render
\* cycles and the run without them differ in no input of the dispatch:
\* - no step of the renderer changes the buffered line;
\* - the line that is dispatched is the buffered line as typed, and the
\*   handler called is the one the registry has for that text, whatever was
\*   rendered in the tick.
C16_RenderKeepsLine ==
    /\ [][(pc \in RenderPcs) => editBuffer' = editBuffer]_vars
    /\ [][(pc = "read_line" /\ pc' # pc) => textInput' = editBuffer]_vars
    /\ [](pc \in {"help", "parse", "parse_check", "flush", "clear", "prompt",
                  "reset"} \cup HandlerPcs => textInput = editBuffer)
    /\ [](Count("handler") = 1 =>
            Events("handler")[1][2] = CommandFn(textInput))
    /\ [](pc \in AfterDispatchPcs /\ Count("line") = 1 /\ CommandFn(textInput) = ""
          /\ textInput \notin {<<"quit">>, <<"help">>} => parseResult < 0)

\* "room" was in the buffer while this tick rendered; "room list" was then
\* completed and dispatched to onRoomList
C16_Witness ==
    /\ pc = "parse_check"
    /\ textInput = <<"room", "list">>
    /\ Count("render") >= 1
    /\ Count("handler") = 1
    /\ Events("handler")[1][2] = "onRoomList"

\* the erase and restore entries of the current tick's log
Cycles == SelectSeq(tickLog, LAMBDA e : e[1] \in {"erase", "restore"})

KindRank(k) == CASE k = "ping" -> 1 [] k = "create" -> 2 [] k = "list" -> 3

\* C17: the kinds are rendered in the order ping, room-create, room-list,
\* each changed kind in a cycle of its own: erases and restores alternate,
\* beginning with an erase, a restore closes the erase of its own kind, and
\* the line is displayed whenever the renderer has returned and whenever
\* the Line Console is polled.
C17_CyclesInOrder ==
    /\ LET c == Cycles
       IN  /\ \A i \in 1..Len(c) :
                 /\ c[i][1] = (IF i % 2 = 1 THEN "erase" ELSE "restore")
                 /\ i % 2 = 0 => c[i][2] = c[i - 1][2]
                 /\ (i % 2 = 1 /\ i > 2) =>
                       KindRank(c[i - 2][2]) < KindRank(c[i][2])
           /\ editDisplayed <=> (Len(c) % 2 = 0)
    /\ pc \in TailPcs \cup {"ping_check", "create_check", "list_check"}
          => editDisplayed
    /\ \A k \in Kinds : CountOf("erase", k) = CountOf("update", k)
                        \/ pc \in RenderPcs \cup {"result_check", "done"}

\* all three kinds changed in one tick: three cycles, the line back
C17_Witness ==
    /\ pc = "edit_update"
    /\ Count("erase") = 3
    /\ Count("restore") = 3
    /\ editDisplayed

\* C18 (as stated): in the cycle of every kind the last seen version is set
\* last, after the erase and after the restore of the cycle.
C18_AssignAfterRestore ==
    \A k \in Kinds :
        CountOf("assign", k) = 1 =>
            /\ CountOf("erase", k) = 1
            /\ CountOf("restore", k) = 1
            /\ Pos("erase", k) < Pos("assign", k)
            /\ Pos("restore", k) < Pos("assign", k)

\* the cycle of kind k is complete in the current tick's log
CycleDone(k) == CountOf("restore", k) = 1

\* C18 (amended): in the cycle of every kind the erase, the render of the
\* payload, the prompt and the restore happen in this order, and the last
\* seen version is set once in the cycle, before the payload is rendered:
\* after the erase for ping, before the erase for room-create and room-list.
C18_CycleOrder ==
    \A k \in Kinds :
        LET steps == SelectSeq(tickLog, LAMBDA e :
                        e[2] = k /\ e[1] \in {"erase", "assign", "render",
                                               "prompt", "restore"})
            ops == [i \in 1..Len(steps) |-> steps[i][1]]
            order == IF k = "ping"
                     THEN << "erase", "assign", "render", "prompt", "restore" >>
                     ELSE << "assign", "erase", "render", "prompt", "restore" >>
        IN  /\ IsPrefix(ops, order)
            /\ CycleDone(k) => ops = order

\* a tick with a complete ping cycle and a complete room-create cycle
C18_Witness ==
    /\ pc = "list_check"
    /\ CycleDone("ping")
    /\ CycleDone("create")

\* the updates of kind k made by this tick's advance (0 when it made none)
UpdatesNow(k) ==
    IF CountOf("update", k) = 0 THEN 0 ELSE EventsOf("update", k)[1][3]

\* the renderer starts the cycle of a kind exactly when the kind's current
\* version differs from its last shown version: where a cycle has just been
\* entered the two differ, where the check has just been passed without a
\* cycle they are equal
TriggeredIffDiffers ==
    /\ pc = "ping_remove" =>
          pingResponseOptionsVersion # lastShownPingResponseVersion
    /\ (pc = "create_check" /\ CountOf("erase", "ping") = 0) =>
          pingResponseOptionsVersion = lastShownPingResponseVersion
    /\ pc = "create_assign" => roomCreateVersion # lastShownRoomCreateVersion
    /\ (pc = "list_check" /\ CountOf("assign", "create") = 0) =>
          roomCreateVersion = lastShownRoomCreateVersion
    /\ pc = "list_assign" =>
          listRoomsOptionsVersion # lastShownRoomListVersion
    /\ (RendererReturned /\ CountOf("assign", "list") = 0) =>
          listRoomsOptionsVersion = lastShownRoomListVersion

\* C19 (as stated): a render of kind k is triggered exactly when the current
\* version differs from the last shown one, and this test detects every
\* update made between two consecutive renderer runs: when the renderer has
\* returned, a kind updated by this tick's advance has been rendered once
\* and none of its updates is left unrendered.
C19_EveryUpdateDetected ==
    /\ TriggeredIffDiffers
    /\ RendererReturned =>
          \A k \in Kinds :
             UpdatesNow(k) > 0 =>
                (CountOf("render", k) = 1 /\ unrendered[k] = 0)

\* C19 (amended): a render of kind k is triggered exactly when the current
\* version differs from the last shown one as 8-bit values, at most once per
\* renderer run, also when the version wrapped or fell; the test detects the
\* updates made between two consecutive renderer runs unless their number
\* is a multiple of 256: then the version is back where it was, no render is
\* triggered and these updates stay unrendered until a later update of the
\* kind.
C19_DetectedUnlessFullRound ==
    /\ TriggeredIffDiffers
    /\ \A k \in Kinds : CountOf("render", k) <= 1
    /\ RendererReturned =>
          \A k \in Kinds :
             /\ unrendered[k] % VersionModulus = 0
             /\ CountOf("render", k) =
                   IF UpdatesNow(k) % VersionModulus # 0 THEN 1 ELSE 0

\* the ping version wrapped from 255 to 0 in this tick and was rendered
C19_Witness ==
    /\ RendererReturned
    /\ UpdatesNow("ping") = 1
    /\ pingResponseOptionsVersion = 0
    /\ CountOf("render", "ping") = 1
    /\ EventsOf("render", "ping")[1][3] = 1
    /\ lastShownPingResponseVersion = 0

\* the last shown version of a kind, and the step of its cycle that sets it
LastShown(k) ==
    CASE k = "ping" -> lastShownPingResponseVersion
      [] k = "create" -> lastShownRoomCreateVersion
      [] k = "list" -> lastShownRoomListVersion
AssignPc(k) == CASE k = "ping" -> "ping_assign"
                 [] k = "create" -> "create_assign"
                 [] k = "list" -> "list_assign"
AllZero == \A k \in Kinds : LastShown(k) = 0

\* C20 (as stated): each last shown version starts at 0 and no step ever
\* lowers it.
C20_NonDecreasing ==
    /\ AllZero
    /\ [][\A k \in Kinds : LastShown(k)' >= LastShown(k)]_vars

\* C20 (amended): each last shown version starts at 0 and changes only in
\* the assignment of its kind's render cycle, where it advances by the number
\* of updates of the kind not yet rendered, modulo 256; so it is
\* non-decreasing until the 8-bit counter wraps, and a wrap lowers it.
C20_AdvancesModulo ==
    /\ AllZero
    /\ [][\A k \in Kinds :
            IF pc = AssignPc(k) /\ pc' # pc
            THEN /\ LastShown(k)' =
                       (LastShown(k) + unrendered[k]) % VersionModulus
                 /\ LastShown(k)' < LastShown(k) =>
                       LastShown(k) + unrendered[k] >= VersionModulus
            ELSE LastShown(k)' = LastShown(k)]_vars

\* the assignment of a ping cycle has just lowered the last shown version
\* from 255 to 0
C20_Witness ==
    /\ pc = "ping_print"
    /\ lastShownPingResponseVersion = 0
    /\ unrendered["ping"] = 1
    /\ initCount = 1

\* C21: the transition to "started" is one-way - no step clears
\* hasStartedConclave, a step that finds it set constructs nothing, whatever
\* the identity state is, and every tick that reaches the Line Console with
\* the flag set has advanced the Coordination Session once, logged in or not.
C21_OneWay ==
    /\ []((hasStartedConclave /\ pc \in TailPcs) =>
             /\ CountOf("advance", "coordination") = 1
             /\ initCount = 1)
    /\ [][hasStartedConclave =>
            /\ hasStartedConclave'
            /\ initCount' = initCount
            /\ CountOf("init", "coordination")' <=
                  CountOf("init", "coordination")]_vars

\* a tick after the construction in which identity is no longer logged in:
\* the Coordination Session was advanced and not constructed again
C21_Witness ==
    /\ pc = "result_check"
    /\ hasStartedConclave
    /\ guiseState = "Idle"
    /\ initCount = 1
    /\ CountOf("init", "coordination") = 0
    /\ CountOf("advance", "coordination") = 1

\* C22: as long as identity has not been observed logged in (the flag is
\* unset) a tick does not advance the Coordination Session, does not enter
\* the renderer, and every last shown version is still 0. (What a handler
\* dispatched in such a tick requests is the matter of C5.)
C22_NothingBeforeStart ==
    ~hasStartedConclave =>
        /\ initCount = 0
        /\ CountOf("advance", "coordination") = 0
        /\ Count("update") = 0
        /\ Count("erase") = 0 /\ Count("assign") = 0 /\ Count("render") = 0
        /\ pc \notin RenderPcs \cup {"clv_update", "result_check"}
        /\ lastShownPingResponseVersion = 0
        /\ lastShownRoomCreateVersion = 0
        /\ lastShownRoomListVersion = 0

\* a tick without login that went from the identity advance straight to the
\* Line Console and on to the sleep
C22_Witness ==
    /\ pc = "sleep"
    /\ ~hasStartedConclave
    /\ guiseState = "Idle"
    /\ CountOf("advance", "identity") = 1
    /\ Count("poll") = 1

\* the handlers that write to the output sink whenever they are called
WritingHandlers == {"onRoomCreate", "onRoomJoin", "onRoomList"}

\* a handler that wrote to the output sink ran in this tick and the flush
\* step of the dispatch is over
WroteAndPassedFlush ==
    /\ pc \in {"clear", "prompt", "reset", "sleep"}
    /\ Count("handler") = 1
    /\ \/ Events("handler")[1][2] \in WritingHandlers
       \/ ~hasStartedConclave

\* C23 (as stated): the handler's output is flushed only after the Line
\* Console's line has been cleared, and the prompt is redrawn after the
\* flush: when the flush has happened the clear has happened before it, and
\* a redrawn prompt comes after it.
C23_ClearFlushPrompt ==
    Count("flush") = 1 =>
        /\ CountOf("clear", "console") = 1
        /\ Pos("clear", "console") < Pos("flush", "terminal")
        /\ CountOf("prompt", "main") = 1 =>
              Pos("flush", "terminal") < Pos("prompt", "main")

\* C23 (amended): after a handler runs, its output is flushed to the
\* terminal first, then the Line Console's line is cleared, then the prompt
\* is redrawn: a handler's output is flushed once and before the clear, the
\* output sink is empty when the line is cleared, and the prompt is redrawn
\* only after the clear.
C23_FlushClearPrompt ==
    /\ Count("flush") <= 1
    /\ CountOf("clear", "console") <= 1
    /\ CountOf("prompt", "main") <= 1
    /\ WroteAndPassedFlush => Count("flush") = 1
    /\ pc = "flush" => CountOf("clear", "console") = 0
    /\ CountOf("clear", "console") = 1 =>
          /\ outStream = << >>
          /\ Count("flush") = 1 =>
                Pos("flush", "terminal") < Pos("clear", "console")
    /\ CountOf("prompt", "main") = 1 =>
          /\ CountOf("clear", "console") = 1
          /\ Pos("clear", "console") < Pos("prompt", "main")

\* the output of onRoomJoin was flushed, the line cleared, the prompt redrawn
C23_Witness ==
    /\ pc = "reset"
    /\ Count("handler") = 1
    /\ Events("handler")[1][2] = "onRoomJoin"
    /\ Count("flush") = 1
    /\ CountOf("clear", "console") = 1
    /\ CountOf("prompt", "main") = 1

\* a text without its leading and trailing whitespace chunks
Trim(text) ==
    LET solid == { i \in 1..Len(text) : text[i] # " " }
        first == CHOOSE i \in solid : \A j \in solid : i <= j
        last == CHOOSE i \in solid : \A j \in solid : j <= i
    IN  IF solid = {} THEN << >> ELSE SubSeq(text, first, last)

\* the positions of main in which the line is with the Command Registry
RegistryPcs == {"parse", "parse_check", "flush"} \cup HandlerPcs

\* C25: the completed line is trimmed before it is compared with the
\* built-in verbs - a line that is "quit" up to surrounding whitespace shuts
\* the client down, one that is "help" up to surrounding whitespace renders
\* the usage, and neither is passed to the Command Registry.
C25_TrimmedBeforeCompare ==
    /\ Trim(textInput) = << "quit" >> =>
          (exitVia = "quit" /\ pc \notin RegistryPcs)
    /\ Trim(textInput) = << "help" >> =>
          /\ pc \notin RegistryPcs
          /\ Count("handler") = 0 /\ Count("diagnostic") = 0
          /\ pc \in {"clear", "prompt", "reset", "sleep"} =>
                 CountOf("usage", "terminal") = 1

\* the handler of ping or of state was called in this tick and has returned
GatedHandlerOver ==
    /\ pc = "parse_check"
    /\ Count("handler") = 1
    /\ Events("handler")[1][2] \in {"onState", "onPing"}

\* C26: the handlers of ping and state are gated on hasStartedConclave.
\* - called with the flag unset they leave the "not started yet" notice, and
\*   nothing else, in the output sink, send no request and print no state;
\* - called with the flag set they write no notice, ping sends exactly one
\*   request, a ping, and state sends none;
\* - in both cases they return to the dispatch and change nothing of the
\*   orchestrator's or the Coordination Session's state.
C26_PingStateGated ==
    /\ [](GatedHandlerOver =>
             IF ~hasStartedConclave
             THEN /\ outStream = << "conclave not started yet" >>
                  /\ Count("request") = 0
                  /\ Count("print") = 0
             ELSE /\ outStream = << >>
                  /\ IF Events("handler")[1][2] = "onPing"
                     THEN /\ Count("request") = 1
                          /\ Events("request")[1][2] = "ping"
                     ELSE Count("request") = 0)
    /\ [][((pc \in {"onState", "onPing"}) /\ pc' # pc) =>
            /\ pc' = "parse_check"
            /\ UNCHANGED << g_quit, guiseState, hasStartedConclave,
                            appVersions, clvVersions, editVars, exitVars,
                            initCount, unrendered >>]_vars

\* ping was called before the Coordination Session was constructed: the
\* notice is in the output sink and no request was sent
C26_Witness ==
    /\ GatedHandlerOver
    /\ Events("handler")[1][2] = "onPing"
    /\ ~hasStartedConclave
    /\ NoticeWritten
    /\ Count("request") = 0

\* C27: every path by which the process exits - "quit", the interrupt flag,
\* a fatal result of the Coordination Session advance, with or without an
\* interrupt in the same tick - has closed the Line Console, once, before
\* main returns.
C27_EveryExitCloses ==
    pc = "done" =>
        /\ exitVia \in {"quit", "flag", "fatal"}
        /\ closeCount = 1
        /\ ~editOpen

====
